---- MODULE Spec2Model ----
(***************************************************************************)
(* Health tracker (src/streamlit_app.py): a Streamlit script that keeps    *)
(* one row per calendar date in the remote table "health_data".            *)
(*                                                                         *)
(* Every user interaction and every st.rerun() executes main() from the    *)
(* top.  A run issues at most two storage requests: the select of          *)
(* load_data (line 22) and then either the upsert of the add button        *)
(* (line 55) or the delete of the delete button (line 135).  The requests  *)
(* are the only points where another browser session can interleave, so a  *)
(* run is modelled as LoadData followed by exactly one of AddRecord,       *)
(* DeleteRecord, RenderPage.                                               *)
(*                                                                         *)
(* Units: a date is the day number of a calendar date; sleep is counted    *)
(* in half hours (the widget's step, line 49), so 13 stands for 6.5 h.     *)
(* The table is assumed to have "date" as its primary key, which is what   *)
(* upsert() without on_conflict resolves conflicts on, and the client is   *)
(* assumed to put the date on the wire in ISO form.                        *)
(***************************************************************************)
EXTENDS Integers, Sequences, FiniteSets, TLC

VARIABLES
    table,          \* rows of health_data, in heap (insertion) order
    avail,          \* TRUE while the storage backend answers requests
    pc,             \* per session: position of the script run
    trigger,        \* per session: the widget event that started the run
    rerun,          \* per session: TRUE when the run was started by st.rerun()
    df,             \* per session: the DataFrame load_data returned
    input,          \* per session: the form values read by the add handler
    delete_target,  \* per session: the value of the delete selectbox
    view,           \* per session: what the current run has rendered
    msg,            \* per session: st.success / st.warning shown by the run
    err,            \* per session: the request whose exception ended the run
    calls           \* per session: requests issued by the run, per kind

vars == <<table, avail, pc, trigger, rerun, df, input, delete_target,
          view, msg, err, calls>>

-----------------------------------------------------------------------------
(* Bounds and input domains *)

NumDates == 2

Dates == 1..NumDates

Solo == {1}

Pair == {1, 2}

Moods == {"best", "normal", "tired"}

\* Values the sidebar widgets can deliver (exercise, sleep, mood, memo).
FormInputs ==
    { [exercise |-> 30, sleep |-> 14, mood |-> "normal", memo |-> ""],
      [exercise |-> 45, sleep |-> 13, mood |-> "best",   memo |-> "ran"] }

NoInput == [date |-> 0, exercise |-> 0, sleep |-> 0, mood |-> "none", memo |-> ""]

NoTarget == <<>>

NoSummary == [avg_sleep |-> <<0, 0>>, shown_sleep |-> 0,
              total_exercise |-> 0, latest_mood |-> "none"]

NoCalls == [load |-> 0, upsert |-> 0, delete |-> 0]

BlankView == [panels |-> {}, summary |-> NoSummary, rows |-> <<>>,
              options |-> <<>>, csv |-> <<>>]

-----------------------------------------------------------------------------
(* Conversions between date values and their text form *)

\* str(date): the day field of the ISO form, zero padded to two digits.
DateStr(d) == <<d \div 10, d % 10>>

\* The date a two digit text denotes (pd.to_datetime, and the database's
\* parse of the eq() filter value).
ParseDate(s) == s[1] * 10 + s[2]

\* The row the add handler sends (lines 55-61).
FormRow(d, p) ==
    [date |-> d, exercise |-> p.exercise, sleep |-> p.sleep,
     mood |-> p.mood, memo |-> p.memo]

WireRow(r) == [r EXCEPT !.date = DateStr(r.date)]

StoredRow(w) == [w EXCEPT !.date = ParseDate(w.date)]

-----------------------------------------------------------------------------
(* The storage backend: the three requests the script issues *)

RowIndex(t, d) == CHOOSE i \in 1..Len(t) : t[i].date = d

HasDate(t, d) == \E i \in 1..Len(t) : t[i].date = d

\* Variant: a conflicting row is merged field by field, an empty memo keeping the old one.
TableUpsertMerge(t, w) ==
    LET r == StoredRow(w) IN
    IF HasDate(t, r.date)
    THEN [t EXCEPT ![RowIndex(t, r.date)] =
             IF r.memo = "" THEN [r EXCEPT !.memo = t[RowIndex(t, r.date)].memo] ELSE r]
    ELSE Append(t, r)

\* Variant: plain insert, no conflict resolution.
TableUpsertAppend(t, w) == Append(t, StoredRow(w))

\* Variant: the conflict is resolved on the mood column instead of the date.
TableUpsertOnMood(t, w) ==
    LET r == StoredRow(w) IN
    IF \E i \in 1..Len(t) : t[i].mood = r.mood
    THEN [t EXCEPT ![CHOOSE i \in 1..Len(t) : t[i].mood = r.mood] = r]
    ELSE Append(t, r)

\* upsert(row): insert, or on a primary key conflict overwrite every column sent.
TableUpsert(t, w) ==
    LET r == StoredRow(w) IN
    IF HasDate(t, r.date)
    THEN [t EXCEPT ![RowIndex(t, r.date)] = r]
    ELSE Append(t, r)

\* Variant: the filter is neq() instead of eq().
TableDeleteOthers(t, text) == SelectSeq(t, LAMBDA r : r.date = ParseDate(text))

\* delete().eq("date", text)
TableDelete(t, text) == SelectSeq(t, LAMBDA r : r.date # ParseDate(text))

RECURSIVE InsertByDate(_, _)
InsertByDate(r, s) ==
    IF s = <<>> THEN <<r>>
    ELSE IF r.date < Head(s).date THEN <<r>> \o s
    ELSE <<Head(s)>> \o InsertByDate(r, Tail(s))

RECURSIVE OrderByDate(_)
OrderByDate(t) ==
    IF t = <<>> THEN <<>>
    ELSE InsertByDate(t[Len(t)], OrderByDate(SubSeq(t, 1, Len(t) - 1)))

\* Variant: the select without .order("date"), rows in heap order.
TableSelectUnordered(t) == [i \in 1..Len(t) |-> WireRow(t[i])]

\* select("*").order("date"): the rows as JSON objects, ascending by date.
TableSelect(t) ==
    LET o == OrderByDate(t) IN [i \in 1..Len(o) |-> WireRow(o[i])]

\* load_data(): the DataFrame built from the response, dates parsed back.
load_data(t) ==
    LET data == TableSelect(t) IN
    IF data # <<>>
    THEN [i \in 1..Len(data) |-> StoredRow(data[i])]
    ELSE <<>>

-----------------------------------------------------------------------------
(* The main panel's computations *)

RECURSIVE SumField(_, _)
SumField(s, f) == IF s = <<>> THEN 0 ELSE Head(s)[f] + SumField(Tail(s), f)

RECURSIVE Gcd(_, _)
Gcd(a, b) == IF b = 0 THEN a ELSE Gcd(b, a % b)

\* Series.mean(): the exact quotient as a reduced fraction <<num, den>>;
\* <<0, 0>> stands for NaN (the mean of no values).
Mean(s, f) ==
    LET n == Len(s)
        t == SumField(s, f)
        g == Gcd(t, n)
    IN IF n = 0 THEN <<0, 0>> ELSE <<t \div g, n \div g>>

\* Round a / b (b > 0) to the nearest integer, ties to the even one.
RoundHalfEven(a, b) ==
    LET q == a \div b
        r == a % b
    IN IF 2 * r < b THEN q
       ELSE IF 2 * r > b THEN q + 1
       ELSE IF q % 2 = 0 THEN q ELSE q + 1

\* f"{avg_sleep:.1f}": tenths of an hour shown for a mean of half hours.
Format1f(avg) == IF avg[2] = 0 THEN 0 ELSE RoundHalfEven(5 * avg[1], avg[2])

\* Variant: the latest mood is read from the first row.
SummarizeFirstMood(d) ==
    LET avg == Mean(d, "sleep") IN
    [avg_sleep      |-> avg,
     shown_sleep    |-> Format1f(avg),
     total_exercise |-> SumField(d, "exercise"),
     latest_mood    |-> IF d = <<>> THEN "none" ELSE d[1].mood]

\* Lines 84-93.
Summarize(d) ==
    LET avg == Mean(d, "sleep") IN
    [avg_sleep      |-> avg,
     shown_sleep    |-> Format1f(avg),
     total_exercise |-> SumField(d, "exercise"),
     latest_mood    |-> IF d = <<>> THEN "none" ELSE d[Len(d)].mood]

RECURSIVE Unique(_)
Unique(s) ==
    IF s = <<>> THEN <<>>
    ELSE LET u == Unique(SubSeq(s, 1, Len(s) - 1))
             x == s[Len(s)]
         IN IF \E i \in 1..Len(u) : u[i] = x THEN u ELSE Append(u, x)

\* Lines 122-127: dates descending, as text, duplicates dropped.
DateOptions(d) ==
    LET asc == OrderByDate(d)
        n   == Len(asc)
    IN Unique([i \in 1..n |-> DateStr(asc[n + 1 - i].date)])

\* to_csv(index=False): the header line, then one line per row.
ToCsv(d) ==
    <<<<"date", "exercise", "sleep", "mood", "memo">>>> \o
    [i \in 1..Len(d) |->
        <<DateStr(d[i].date), d[i].exercise, d[i].sleep, d[i].mood, d[i].memo>>]

Range(s) == {s[i] : i \in 1..Len(s)}

\* What lines 69-132 put on the page for a non-empty DataFrame, up to and
\* including the delete selectbox.
MainPanels(d) ==
    [panels  |-> {"sidebar", "summary", "charts", "table", "delete"},
     summary |-> Summarize(d),
     rows    |-> d,
     options |-> DateOptions(d),
     csv     |-> <<>>]

-----------------------------------------------------------------------------
(* The script run *)

Sessions == DOMAIN pc

\* Lines 34-36: a run starts, whatever the previous run rendered is replaced,
\* and load_data() issues the select.  An unanswered request raises, and the
\* exception ends the run.
LoadData(s) ==
    /\ pc[s] = "start"
    /\ view' = [view EXCEPT ![s] = BlankView]
    /\ msg' = [msg EXCEPT ![s] = "none"]
    /\ input' = [input EXCEPT ![s] = NoInput]
    /\ delete_target' = [delete_target EXCEPT ![s] = NoTarget]
    /\ calls' = [calls EXCEPT ![s] = [NoCalls EXCEPT !.load = 1]]
    /\ IF avail
       THEN /\ df' = [df EXCEPT ![s] = load_data(table)]
            /\ pc' = [pc EXCEPT ![s] = "loaded"]
            /\ err' = [err EXCEPT ![s] = "none"]
       ELSE /\ df' = [df EXCEPT ![s] = <<>>]
            /\ pc' = [pc EXCEPT ![s] = "error"]
            /\ err' = [err EXCEPT ![s] = "load"]
    /\ UNCHANGED <<table, avail, trigger, rerun>>

\* Variant: the add handler writes the whole collection back from its own
\* DataFrame with the new row applied.
AddRecordRewrite(s) ==
    /\ pc[s] = "loaded"
    /\ trigger[s] = "add"
    /\ \E d \in Dates, p \in FormInputs :
          /\ input' = [input EXCEPT ![s] = FormRow(d, p)]
          /\ IF avail
             THEN table' = TableUpsert(df[s], WireRow(FormRow(d, p)))
             ELSE table' = table
    /\ calls' = [calls EXCEPT ![s].upsert = @ + 1]
    /\ view' = [view EXCEPT ![s].panels = {"sidebar"}]
    /\ IF avail
       THEN /\ msg' = [msg EXCEPT ![s] = "success"]
            /\ rerun' = [rerun EXCEPT ![s] = TRUE]
            /\ trigger' = [trigger EXCEPT ![s] = "none"]
            /\ pc' = [pc EXCEPT ![s] = "start"]
            /\ err' = err
       ELSE /\ pc' = [pc EXCEPT ![s] = "error"]
            /\ err' = [err EXCEPT ![s] = "upsert"]
            /\ UNCHANGED <<msg, rerun, trigger>>
    /\ UNCHANGED <<avail, df, delete_target>>

\* Variant: the add handler catches the exception of an unanswered upsert
\* and carries on to st.success() and st.rerun().
AddRecordSwallow(s) ==
    /\ pc[s] = "loaded"
    /\ trigger[s] = "add"
    /\ \E d \in Dates, p \in FormInputs :
          /\ input' = [input EXCEPT ![s] = FormRow(d, p)]
          /\ IF avail
             THEN table' = TableUpsert(table, WireRow(FormRow(d, p)))
             ELSE table' = table
    /\ calls' = [calls EXCEPT ![s].upsert = @ + 1]
    /\ view' = [view EXCEPT ![s].panels = {"sidebar"}]
    /\ msg' = [msg EXCEPT ![s] = "success"]
    /\ rerun' = [rerun EXCEPT ![s] = TRUE]
    /\ trigger' = [trigger EXCEPT ![s] = "none"]
    /\ pc' = [pc EXCEPT ![s] = "start"]
    /\ UNCHANGED <<avail, df, delete_target, err>>

\* Lines 41-64 with the add button pressed: the form values are read, the
\* upsert is issued, then st.success() and st.rerun().
AddRecord(s) ==
    /\ pc[s] = "loaded"
    /\ trigger[s] = "add"
    /\ \E d \in Dates, p \in FormInputs :
          /\ input' = [input EXCEPT ![s] = FormRow(d, p)]
          /\ IF avail
             THEN table' = TableUpsert(table, WireRow(FormRow(d, p)))
             ELSE table' = table
    /\ calls' = [calls EXCEPT ![s].upsert = @ + 1]
    /\ view' = [view EXCEPT ![s].panels = {"sidebar"}]
    /\ IF avail
       THEN /\ msg' = [msg EXCEPT ![s] = "success"]
            /\ rerun' = [rerun EXCEPT ![s] = TRUE]
            /\ trigger' = [trigger EXCEPT ![s] = "none"]
            /\ pc' = [pc EXCEPT ![s] = "start"]
            /\ err' = err
       ELSE /\ pc' = [pc EXCEPT ![s] = "error"]
            /\ err' = [err EXCEPT ![s] = "upsert"]
            /\ UNCHANGED <<msg, rerun, trigger>>
    /\ UNCHANGED <<avail, df, delete_target>>

\* Variant: the page body is rendered without the df.empty test.
RenderPageAlways(s) ==
    /\ pc[s] = "loaded"
    /\ trigger[s] # "add"
    /\ trigger[s] = "del" => df[s] = <<>>
    /\ view' = [view EXCEPT ![s] =
                  [MainPanels(df[s]) EXCEPT
                      !.panels = @ \cup {"csv"}, !.csv = ToCsv(df[s])]]
    /\ pc' = [pc EXCEPT ![s] = "done"]
    /\ trigger' = [trigger EXCEPT ![s] = "none"]
    /\ UNCHANGED <<table, avail, rerun, df, input, delete_target, msg, err, calls>>

\* Lines 66-154 with no button pressed (or with the delete button's press
\* arriving in a run whose DataFrame is empty, where the button is not
\* drawn): the page is rendered to the end.
RenderPage(s) ==
    /\ pc[s] = "loaded"
    /\ trigger[s] # "add"
    /\ trigger[s] = "del" => df[s] = <<>>
    /\ view' = [view EXCEPT ![s] =
                  IF df[s] # <<>>
                  THEN [MainPanels(df[s]) EXCEPT
                           !.panels = @ \cup {"csv"}, !.csv = ToCsv(df[s])]
                  ELSE [BlankView EXCEPT !.panels = {"sidebar", "info"}]]
    /\ pc' = [pc EXCEPT ![s] = "done"]
    /\ trigger' = [trigger EXCEPT ![s] = "none"]
    /\ UNCHANGED <<table, avail, rerun, df, input, delete_target, msg, err, calls>>

\* Variant: the delete handler without st.rerun(): the run goes on to the
\* CSV export with the DataFrame it loaded before the delete.
DeleteRecordNoRerun(s) ==
    /\ pc[s] = "loaded"
    /\ trigger[s] = "del"
    /\ df[s] # <<>>
    /\ \E target \in Range(DateOptions(df[s])) :
          /\ delete_target' = [delete_target EXCEPT ![s] = target]
          /\ IF avail
             THEN table' = TableDelete(table, target)
             ELSE table' = table
    /\ calls' = [calls EXCEPT ![s].delete = @ + 1]
    /\ IF avail
       THEN /\ msg' = [msg EXCEPT ![s] = "warning"]
            /\ view' = [view EXCEPT ![s] =
                          [MainPanels(df[s]) EXCEPT
                              !.panels = @ \cup {"csv"}, !.csv = ToCsv(df[s])]]
            /\ trigger' = [trigger EXCEPT ![s] = "none"]
            /\ pc' = [pc EXCEPT ![s] = "done"]
            /\ UNCHANGED <<rerun, err>>
       ELSE /\ view' = [view EXCEPT ![s] = MainPanels(df[s])]
            /\ pc' = [pc EXCEPT ![s] = "error"]
            /\ err' = [err EXCEPT ![s] = "delete"]
            /\ UNCHANGED <<msg, rerun, trigger>>
    /\ UNCHANGED <<avail, df, input>>

\* Lines 69-140 with the delete button pressed: the page is rendered down to
\* the selectbox, the delete is issued, then st.warning() and st.rerun().
DeleteRecord(s) ==
    /\ pc[s] = "loaded"
    /\ trigger[s] = "del"
    /\ df[s] # <<>>
    /\ view' = [view EXCEPT ![s] = MainPanels(df[s])]
    /\ \E target \in Range(DateOptions(df[s])) :
          /\ delete_target' = [delete_target EXCEPT ![s] = target]
          /\ IF avail
             THEN table' = TableDelete(table, target)
             ELSE table' = table
    /\ calls' = [calls EXCEPT ![s].delete = @ + 1]
    /\ IF avail
       THEN /\ msg' = [msg EXCEPT ![s] = "warning"]
            /\ rerun' = [rerun EXCEPT ![s] = TRUE]
            /\ trigger' = [trigger EXCEPT ![s] = "none"]
            /\ pc' = [pc EXCEPT ![s] = "start"]
            /\ err' = err
       ELSE /\ pc' = [pc EXCEPT ![s] = "error"]
            /\ err' = [err EXCEPT ![s] = "delete"]
            /\ UNCHANGED <<msg, rerun, trigger>>
    /\ UNCHANGED <<avail, df, input>>

\* The user acts on the page a finished (or failed) run left behind: presses
\* a button that is on it, or changes a widget / reloads the page.
Interact(s) ==
    /\ pc[s] \in {"done", "error"}
    /\ \E k \in {"none", "add", "del"} :
          /\ k = "add" => "sidebar" \in view[s].panels
          /\ k = "del" => "delete" \in view[s].panels
          /\ trigger' = [trigger EXCEPT ![s] = k]
    /\ pc' = [pc EXCEPT ![s] = "start"]
    /\ rerun' = [rerun EXCEPT ![s] = FALSE]
    /\ UNCHANGED <<table, avail, df, input, delete_target, view, msg, err, calls>>

\* The backend becomes unreachable, or reachable again.
ToggleStorage ==
    /\ avail' = ~avail
    /\ UNCHANGED <<table, pc, trigger, rerun, df, input, delete_target,
                   view, msg, err, calls>>

-----------------------------------------------------------------------------
(* Specifications *)

InitFor(S) ==
    /\ table = <<>>
    /\ avail = TRUE
    /\ pc = [s \in S |-> "start"]
    /\ trigger = [s \in S |-> "none"]
    /\ rerun = [s \in S |-> FALSE]
    /\ df = [s \in S |-> <<>>]
    /\ input = [s \in S |-> NoInput]
    /\ delete_target = [s \in S |-> NoTarget]
    /\ view = [s \in S |-> BlankView]
    /\ msg = [s \in S |-> "none"]
    /\ err = [s \in S |-> "none"]
    /\ calls = [s \in S |-> NoCalls]

Init == InitFor(Solo)

Init2 == InitFor(Pair)

Next ==
    \/ \E s \in Sessions : LoadData(s)
    \/ \E s \in Sessions : AddRecord(s)
    \/ \E s \in Sessions : RenderPage(s)
    \/ \E s \in Sessions : DeleteRecord(s)
    \/ \E s \in Sessions : Interact(s)
    \/ ToggleStorage

\* One browser session.
Spec == Init /\ [][Next]_vars

\* Two browser sessions on the same table, the backend reachable throughout.
Next2 ==
    \/ \E s \in Sessions : LoadData(s)
    \/ \E s \in Sessions : AddRecord(s)
    \/ \E s \in Sessions : RenderPage(s)
    \/ \E s \in Sessions : DeleteRecord(s)
    \/ \E s \in Sessions : Interact(s)

Spec2 == Init2 /\ [][Next2]_vars

-----------------------------------------------------------------------------
(* Properties *)

\* The run of session s has just completed a successful upsert / delete and
\* has not yet started the run st.rerun() asked for.
JustAdded(s) == pc[s] = "start" /\ msg[s] = "success"

JustDeleted(s) == pc[s] = "start" /\ msg[s] = "warning"

RowsOn(t, d) == {i \in 1..Len(t) : t[i].date = d}

\* C1: in one session, once the add button has stored r2 the table holds
\* exactly one row for r2's date and that row equals r2 in every field,
\* whatever row r1 the date had before (df still holds the collection loaded
\* before the upsert).
C1_LastWriteWins ==
    \A s \in Sessions :
        JustAdded(s) =>
            /\ Cardinality(RowsOn(table, input[s].date)) = 1
            /\ \A i \in RowsOn(table, input[s].date) :
                  /\ table[i].exercise = input[s].exercise
                  /\ table[i].sleep = input[s].sleep
                  /\ table[i].mood = input[s].mood
                  /\ table[i].memo = input[s].memo

\* r2 has just replaced an r1 of the same date that differs from it in every field.
C1_Witness ==
    \E s \in Sessions :
        /\ JustAdded(s)
        /\ \E i \in 1..Len(df[s]) :
              /\ df[s][i].date = input[s].date
              /\ df[s][i].exercise # input[s].exercise
              /\ df[s][i].sleep # input[s].sleep
              /\ df[s][i].mood # input[s].mood
              /\ df[s][i].memo # input[s].memo

\* C2: the table never holds two rows with the same date.
C2_UniqueDates ==
    \A i, j \in 1..Len(table) : table[i].date = table[j].date => i = j

\* An upsert for a date that was already stored has run and the table is full.
C2_Witness ==
    \E s \in Sessions :
        /\ JustAdded(s)
        /\ HasDate(df[s], input[s].date)
        /\ Len(table) = NumDates

\* C3: every DataFrame load_data returns is ascending by date.
C3_LoadSorted ==
    \A s \in Sessions :
        \A i \in 1..(Len(df[s]) - 1) : df[s][i].date <= df[s][i + 1].date

\* A load of a table whose rows were inserted in descending date order.
C3_Witness ==
    \E s \in Sessions :
        /\ pc[s] = "loaded"
        /\ Len(df[s]) >= 2
        /\ Len(table) >= 2
        /\ table[1].date > table[2].date

DeleteStep(s) ==
    /\ pc[s] = "loaded"
    /\ trigger[s] = "del"
    /\ avail
    /\ calls'[s].delete = calls[s].delete + 1

\* C4: a delete of date d leaves no row of d, leaves every other row as it
\* was, adds none, and raises nothing, also when d is no longer (or never
\* was) in the table, where it changes nothing.
C4_Delete ==
    /\ [](\A d \in Dates : ~HasDate(table, d) => TableDelete(table, DateStr(d)) = table)
    /\ [][\A s \in Sessions :
            DeleteStep(s) =>
                LET d == ParseDate(delete_target'[s]) IN
                /\ ~HasDate(table', d)
                /\ \A r \in Range(table) : r.date # d => r \in Range(table')
                /\ Range(table') \subseteq Range(table)
                /\ ~HasDate(table, d) => table' = table
                /\ err'[s] = "none"
                /\ msg'[s] = "warning"]_vars

\* Two sessions have deleted the same date one after the other: the second
\* delete found no such row.
C4_Witness ==
    /\ Sessions = Pair
    /\ JustDeleted(1)
    /\ JustDeleted(2)
    /\ delete_target[1] = delete_target[2]
    /\ table # <<>>

RECURSIVE UpsertAll(_, _)
UpsertAll(t, rs) ==
    IF rs = <<>> THEN t ELSE UpsertAll(TableUpsert(t, WireRow(Head(rs))), Tail(rs))

AllRows == {FormRow(d, p) : d \in Dates, p \in FormInputs}

DistinctDates(R) == \A a, b \in R : a.date = b.date => a = b

Orders(R) ==
    {o \in [1..Cardinality(R) -> R] : \A a \in R : \E i \in DOMAIN o : o[i] = a}

\* C5: from the stored collection, upserts of rows with pairwise distinct
\* dates give the same rows, and the same loaded sequence, in every order.
C5_UpsertCommutes ==
    \A R \in SUBSET AllRows :
        DistinctDates(R) =>
            \A o1, o2 \in Orders(R) :
                /\ Range(UpsertAll(table, o1)) = Range(UpsertAll(table, o2))
                /\ load_data(UpsertAll(table, o1)) = load_data(UpsertAll(table, o2))

\* The stored rows were first inserted in descending date order, the last of
\* them by the upsert that has just run, onto a collection that was not empty.
C5_Witness ==
    \E s \in Sessions :
        /\ JustAdded(s)
        /\ df[s] # <<>>
        /\ ~HasDate(df[s], input[s].date)
        /\ table[Len(table)] = input[s]
        /\ table[1].date > input[s].date
        /\ load_data(table) # table

MaxDate(d) == CHOOSE m \in Range(d) : \A r \in Range(d) : r.date <= m.date

Abs(x) == IF x < 0 THEN -x ELSE x

SummaryOf(s) == view[s].summary

Summarized(s) == "summary" \in view[s].panels

\* C6 as stated: the average on the page is the arithmetic mean itself (in
\* tenths of an hour: shown * n = 5 * sum of half hours), the total is the
\* sum and the mood is that of the row with the greatest date.
C6_ShownIsMean ==
    \A s \in Sessions :
        Summarized(s) =>
            /\ SummaryOf(s).shown_sleep * Len(df[s]) = 5 * SumField(df[s], "sleep")
            /\ SummaryOf(s).total_exercise = SumField(df[s], "exercise")
            /\ SummaryOf(s).latest_mood = MaxDate(df[s]).mood

\* C6 amended: avg_sleep is the arithmetic mean, and the page shows it
\* rounded to one decimal place (at most half a tenth away, an exact tie
\* going to the even tenth); the total is the sum of exercise and the mood
\* is that of the row with the greatest date.
C6_Summary ==
    \A s \in Sessions :
        Summarized(s) =>
            LET n     == Len(df[s])
                sum   == SumField(df[s], "sleep")
                avg   == SummaryOf(s).avg_sleep
                shown == SummaryOf(s).shown_sleep
            IN /\ n > 0
               /\ avg[2] > 0
               /\ avg[1] * n = avg[2] * sum
               /\ 2 * Abs(shown * n - 5 * sum) <= n
               /\ 2 * Abs(shown * n - 5 * sum) = n => shown % 2 = 0
               /\ SummaryOf(s).total_exercise = SumField(df[s], "exercise")
               /\ SummaryOf(s).latest_mood = MaxDate(df[s]).mood

\* A summary of two rows whose mean sleep is 6.75 h, the row of the greatest
\* date not being the one inserted last.
C6_Witness ==
    \E s \in Sessions :
        /\ Summarized(s)
        /\ pc[s] = "done"
        /\ Len(df[s]) = 2
        /\ SumField(df[s], "sleep") = 27
        /\ SummaryOf(s).shown_sleep = 68
        /\ table[Len(table)].date < MaxDate(df[s]).date
        /\ df[s][1].mood # df[s][2].mood

LoadStep(s) == pc[s] = "start" /\ pc'[s] # "start"

\* C7: a load of the empty table succeeds with an empty DataFrame, and on an
\* empty DataFrame no summary is computed: a finished run shows the sidebar
\* and the prompt, nothing else.
C7_EmptyStore ==
    /\ [](\A s \in Sessions :
            /\ Summarized(s) => df[s] # <<>>
            /\ view[s].summary # NoSummary => df[s] # <<>>
            /\ (pc[s] = "done" /\ df[s] = <<>>) =>
                   view[s] = [BlankView EXCEPT !.panels = {"sidebar", "info"}])
    /\ [][\A s \in Sessions :
            (LoadStep(s) /\ avail /\ table = <<>>) =>
                (pc'[s] = "loaded" /\ df'[s] = <<>> /\ err'[s] = "none")]_vars

\* The run that st.rerun() started after the last row was deleted has
\* finished on the prompt.
C7_Witness ==
    \E s \in Sessions :
        /\ pc[s] = "done"
        /\ rerun[s]
        /\ table = <<>>
        /\ df[s] = <<>>
        /\ "info" \in view[s].panels

AddStep(s) ==
    /\ pc[s] = "loaded"
    /\ trigger[s] = "add"
    /\ avail
    /\ calls'[s].upsert = calls[s].upsert + 1

\* C8 as stated: a mutation writes the whole collection back from the
\* session's own snapshot, so the table afterwards is that snapshot with the
\* change applied, and what another session stored since is lost.
C8_WholeCollectionWrite ==
    [][\A s \in Sessions :
          /\ AddStep(s) =>
                Range(table') = Range(TableUpsert(df[s], WireRow(input'[s])))
          /\ DeleteStep(s) =>
                Range(table') = Range(TableDelete(df[s], delete_target'[s]))]_vars

\* C8 amended: a mutation is one row-level request keyed by date.  An upsert
\* stores its row and keeps every row of another date, a delete keeps every
\* row of another date, whatever the session's snapshot held; only the row
\* of the date written is overwritten, by the last writer, undetected.
C8_RowLevelWrite ==
    [][\A s \in Sessions :
          /\ AddStep(s) =>
                /\ input'[s] \in Range(table')
                /\ \A r \in Range(table) :
                      r.date # input'[s].date => r \in Range(table')
                /\ \A r \in Range(table') : r = input'[s] \/ r \in Range(table)
          /\ DeleteStep(s) =>
                \A r \in Range(table) :
                    r.date # ParseDate(delete_target'[s]) => r \in Range(table')]_vars

\* Session 1 has stored a row from a snapshot that lacks a row of another
\* date, which the other session stored in between and which is still there.
C8_Witness ==
    /\ Sessions = Pair
    /\ JustAdded(1)
    /\ \E r \in Range(table) :
          /\ r.date # input[1].date
          /\ ~HasDate(df[1], r.date)
    /\ input[1] \in Range(table)

IssuesRequest(s) == LoadStep(s) \/ calls'[s] # calls[s]

\* C9: a request issued while the backend is unreachable ends the run with
\* that request's exception: the request was issued once, no success or
\* deletion message is shown, no rerun is asked for, the table is as before.
C9_Unavailable ==
    [][\A s \in Sessions :
          (IssuesRequest(s) /\ ~avail) =>
              /\ pc'[s] = "error"
              /\ err'[s] \in {"load", "upsert", "delete"}
              /\ calls'[s][err'[s]] = 1
              /\ msg'[s] = "none"
              /\ rerun'[s] = rerun[s]
              /\ table' = table]_vars

\* An upsert was issued while the backend was unreachable.
C9_Witness ==
    \E s \in Sessions :
        /\ pc[s] = "error"
        /\ err[s] = "upsert"
        /\ ~avail
        /\ table # <<>>

\* C10: with one session, a successful mutation ends its run at once in
\* st.rerun() (nothing below the handler is rendered), the run that follows
\* loads the collection including the mutation, and every finished run shows
\* the stored collection: table, summary, delete options and CSV export.
C10_RenderFresh ==
    \A s \in Sessions :
        /\ msg[s] # "none" =>
              /\ pc[s] = "start"
              /\ rerun[s]
              /\ "csv" \notin view[s].panels
              /\ msg[s] = "success" => view[s].panels = {"sidebar"}
        /\ pc[s] = "loaded" => df[s] = load_data(table)
        /\ pc[s] = "done" =>
              /\ view[s].rows = load_data(table)
              /\ table # <<>> =>
                    /\ view[s].panels =
                          {"sidebar", "summary", "charts", "table", "delete", "csv"}
                    /\ view[s].summary = Summarize(load_data(table))
                    /\ view[s].options = DateOptions(load_data(table))
                    /\ view[s].csv = ToCsv(load_data(table))

\* The run st.rerun() started after a mutation has finished rendering a
\* collection of two rows.
C10_Witness ==
    \E s \in Sessions :
        /\ pc[s] = "done"
        /\ rerun[s]
        /\ Len(view[s].rows) = 2
        /\ "csv" \in view[s].panels

====
